---- MODULE Spec2Model ----
(***************************************************************************)
(* bfk: a Brainfuck interpreter (src/src/lib.rs, src/src/main.rs).         *)
(*                                                                         *)
(* The model follows the pipeline of main.rs and of the tests of lib.rs:   *)
(* parse the source with a Language, compress the parsed Code, build an    *)
(* Environment over a data buffer, a reader and a writer, and run the      *)
(* Code one operation at a time.  Both the raw Code<Op> and the            *)
(* Code<CompressedOp> are run, each in its own Environment built from the  *)
(* same buffer contents and the same input, so that the two runs can be    *)
(* compared.                                                               *)
(*                                                                         *)
(* Conventions.  Indices (pc, pointer, jump-table values, map_stack        *)
(* entries) are the 0-based numbers of the Rust code; a Vec v is a TLA+    *)
(* sequence, so v[i] of the code is v[i + 1] here.  A character is a       *)
(* one-character string.  An Op is the name of its variant; a CompressedOp *)
(* is a tuple <<variant>> or <<variant, count>>.  Option<T> is <<>> for    *)
(* None and <<x>> for Some(x).  A panic is the field panicked = TRUE of    *)
(* the value the panicking function was building.                          *)
(***************************************************************************)
EXTENDS Integers, Sequences, FiniteSets, TLC

VARIABLES
    source,           \* main.rs: code (the program text), as a sequence of chars
    language_str,     \* main.rs: matches.value_of("language"), an Option of a sequence of chars
    language,         \* main.rs: language
    data0,            \* the contents of the data buffer handed to Environment::new
    input0,           \* the bytes the reader will deliver
    overflow_checks,  \* build profile: TRUE = debug (overflow panics), FALSE = release (wraps)
    owed,             \* steps the raw run has still to make to catch up with the compressed run
    stage,            \* position in the pipeline
    ops,              \* main.rs: ops = parse(&code, &language)
    compressed_ops,   \* main.rs: compressed_ops = compress(&ops)
    env,              \* the Environment of run(&ops, &mut env)
    cenv              \* the Environment of run(&compressed_ops, &mut env)

vars == <<source, language_str, language, data0, input0, overflow_checks, owed, stage,
          ops, compressed_ops, env, cenv>>

----------------------------------------------------------------------------
(* Bounds of the model *)

\* longest source text enumerated exhaustively
MaxLen == 3
\* length of the data buffer (main.rs: buffer_size)
MemSize == 7
\* the writer accepts at most this many bytes; a run that would write more is cut off
MaxOut == 14
\* width of usize in bits (the pointer wraps modulo 2^UsizeBits in a release build)
UsizeBits == 10

\* u8: number of values of a cell and of an Add/Sub count
U8Range == 256

UsizeRange == 2 ^ UsizeBits

----------------------------------------------------------------------------
(* Language *)

\* Language::default
Default ==
    [inc |-> "+", dec |-> "-", inc_ptr |-> ">", dec_ptr |-> "<",
     get_char |-> ",", put_char |-> ".", loop_start |-> "[", loop_end |-> "]"]

\* mutant of is_token: the symbols tested are those of the default language
IsTokenOfDefault(self, ch) ==
    \/ Default.inc = ch
    \/ Default.dec = ch
    \/ Default.inc_ptr = ch
    \/ Default.dec_ptr = ch
    \/ Default.put_char = ch
    \/ Default.get_char = ch
    \/ Default.loop_start = ch
    \/ Default.loop_end = ch

\* Language::is_token
is_token(self, ch) ==
    \/ self.inc = ch
    \/ self.dec = ch
    \/ self.inc_ptr = ch
    \/ self.dec_ptr = ch
    \/ self.put_char = ch
    \/ self.get_char = ch
    \/ self.loop_start = ch
    \/ self.loop_end = ch

\* mutant of make_from_string: only a string that is too short is refused
MakeFromStringAtLeast8(s) ==
    IF Len(s) < 8 THEN <<>>
    ELSE LET chars == s IN
         <<[inc |-> chars[0 + 1],
            dec |-> chars[1 + 1],
            inc_ptr |-> chars[2 + 1],
            dec_ptr |-> chars[3 + 1],
            get_char |-> chars[4 + 1],
            put_char |-> chars[5 + 1],
            loop_start |-> chars[6 + 1],
            loop_end |-> chars[7 + 1]]>>

\* Language::make_from_string
make_from_string(s) ==
    IF Len(s) # 8 THEN <<>>
    ELSE LET chars == s IN
         <<[inc |-> chars[0 + 1],
            dec |-> chars[1 + 1],
            inc_ptr |-> chars[2 + 1],
            dec_ptr |-> chars[3 + 1],
            get_char |-> chars[4 + 1],
            put_char |-> chars[5 + 1],
            loop_start |-> chars[6 + 1],
            loop_end |-> chars[7 + 1]]>>

----------------------------------------------------------------------------
(* Code and parse *)

\* mutant of Zeros: every entry is n, the index past the end of the sequence
PastTheEnd(n) == [i \in 1..n |-> n]

\* vec![0; n]
Zeros(n) == [i \in 1..n |-> 0]

\* Vec::pop on map_stack: the stack without its last element
PopStack(s) == SubSeq(s, 1, Len(s) - 1)

\* mutant of SetJumps: the targets are the delimiters themselves, not the ops after them
SetJumpsOnDelimiters(jump_table, begin, pc) ==
    [jump_table EXCEPT ![begin + 1] = pc, ![pc + 1] = begin]

\* mutant of SetJumps: the target of the loop start is one too far
SetJumpsPastPartner(jump_table, begin, pc) ==
    [jump_table EXCEPT ![begin + 1] = pc + 2, ![pc + 1] = begin + 1]

\* jump_table[begin] = pc + 1; jump_table[pc] = begin + 1 (parse and compress)
SetJumps(jump_table, begin, pc) ==
    [jump_table EXCEPT ![begin + 1] = pc + 1, ![pc + 1] = begin + 1]

\* mutant of ParseToken: an unmatched loop end is paired with token 0 instead of
\* aborting (map_stack.pop().unwrap_or(0))
ParseTokenUnmatchedAsZero(language_, char, pc, st) ==
    IF language_.inc = char THEN [st EXCEPT !.ops = Append(@, "Inc")]
    ELSE IF language_.dec = char THEN [st EXCEPT !.ops = Append(@, "Dec")]
    ELSE IF language_.inc_ptr = char THEN [st EXCEPT !.ops = Append(@, "IncPtr")]
    ELSE IF language_.dec_ptr = char THEN [st EXCEPT !.ops = Append(@, "DecPtr")]
    ELSE IF language_.put_char = char THEN [st EXCEPT !.ops = Append(@, "PutChar")]
    ELSE IF language_.get_char = char THEN [st EXCEPT !.ops = Append(@, "GetChar")]
    ELSE IF language_.loop_start = char THEN
        [st EXCEPT !.ops = Append(@, "LoopStart"), !.map_stack = Append(@, pc)]
    ELSE IF language_.loop_end = char THEN
        LET begin == IF st.map_stack = <<>> THEN 0 ELSE st.map_stack[Len(st.map_stack)] IN
        [st EXCEPT !.ops = Append(@, "LoopEnd"),
                   !.map_stack = IF @ = <<>> THEN @ ELSE PopStack(@),
                   !.jump_table = SetJumps(@, begin, pc)]
    ELSE st

\* mutant of ParseToken: get_char is tested before put_char, as the symbol table
\* orders them
ParseTokenReadBeforeWrite(language_, char, pc, st) ==
    IF language_.inc = char THEN [st EXCEPT !.ops = Append(@, "Inc")]
    ELSE IF language_.dec = char THEN [st EXCEPT !.ops = Append(@, "Dec")]
    ELSE IF language_.inc_ptr = char THEN [st EXCEPT !.ops = Append(@, "IncPtr")]
    ELSE IF language_.dec_ptr = char THEN [st EXCEPT !.ops = Append(@, "DecPtr")]
    ELSE IF language_.get_char = char THEN [st EXCEPT !.ops = Append(@, "GetChar")]
    ELSE IF language_.put_char = char THEN [st EXCEPT !.ops = Append(@, "PutChar")]
    ELSE IF language_.loop_start = char THEN
        [st EXCEPT !.ops = Append(@, "LoopStart"), !.map_stack = Append(@, pc)]
    ELSE IF language_.loop_end = char THEN
        IF st.map_stack = <<>>
        THEN [st EXCEPT !.ops = Append(@, "LoopEnd"), !.panicked = TRUE]
        ELSE LET begin == st.map_stack[Len(st.map_stack)] IN
             [st EXCEPT !.ops = Append(@, "LoopEnd"),
                        !.map_stack = PopStack(@),
                        !.jump_table = SetJumps(@, begin, pc)]
    ELSE st

\* one iteration of the for loop of parse, on token number pc
ParseToken(language_, char, pc, st) ==
    IF language_.inc = char THEN [st EXCEPT !.ops = Append(@, "Inc")]
    ELSE IF language_.dec = char THEN [st EXCEPT !.ops = Append(@, "Dec")]
    ELSE IF language_.inc_ptr = char THEN [st EXCEPT !.ops = Append(@, "IncPtr")]
    ELSE IF language_.dec_ptr = char THEN [st EXCEPT !.ops = Append(@, "DecPtr")]
    ELSE IF language_.put_char = char THEN [st EXCEPT !.ops = Append(@, "PutChar")]
    ELSE IF language_.get_char = char THEN [st EXCEPT !.ops = Append(@, "GetChar")]
    ELSE IF language_.loop_start = char THEN
        [st EXCEPT !.ops = Append(@, "LoopStart"), !.map_stack = Append(@, pc)]
    ELSE IF language_.loop_end = char THEN
        IF st.map_stack = <<>>
        THEN \* map_stack.pop().expect("Unmatched loop end")
             [st EXCEPT !.ops = Append(@, "LoopEnd"), !.panicked = TRUE]
        ELSE LET begin == st.map_stack[Len(st.map_stack)] IN
             [st EXCEPT !.ops = Append(@, "LoopEnd"),
                        !.map_stack = PopStack(@),
                        !.jump_table = SetJumps(@, begin, pc)]
    ELSE st

\* the for loop of parse over token_chars.enumerate(), for the tokens number lo..hi
\* in order (the range is split in two halves to keep the evaluation shallow)
RECURSIVE ParseLoop(_, _, _, _, _)
ParseLoop(language_, token_chars, lo, hi, st) ==
    IF lo > hi \/ st.panicked THEN st
    ELSE IF lo = hi THEN ParseToken(language_, token_chars[lo + 1], lo, st)
    ELSE LET mid == (lo + hi) \div 2 IN
         ParseLoop(language_, token_chars, mid + 1, hi,
                   ParseLoop(language_, token_chars, lo, mid, st))

\* mutant of parse: the tokens are numbered by their position in the source text
ParseUnfiltered(source_, language_) ==
    LET st == ParseLoop(language_, source_, 0, Len(source_) - 1,
                        [ops |-> <<>>, jump_table |-> Zeros(Len(source_)),
                         map_stack |-> <<>>, panicked |-> FALSE])
    IN  [ops |-> st.ops, jump_table |-> st.jump_table, panicked |-> st.panicked]

\* pub fn parse
parse(source_, language_) ==
    LET token_chars == SelectSeq(source_, LAMBDA c : is_token(language_, c))
        st == ParseLoop(language_, token_chars, 0, Len(token_chars) - 1,
                        [ops |-> <<>>, jump_table |-> Zeros(Len(token_chars)),
                         map_stack |-> <<>>, panicked |-> FALSE])
    IN  [ops |-> st.ops, jump_table |-> st.jump_table, panicked |-> st.panicked]

----------------------------------------------------------------------------
(* compress *)

\* mutant of Accumulates: every op that repeats last_op is merged
AccumulatesAny(last_op_, op) == last_op_ = op

\* mutant of Accumulates: a repeated LoopStart is merged as well
AccumulatesLoopStart(last_op_, op) ==
    /\ last_op_ = op
    /\ (last_op_ = "Inc" \/ last_op_ = "Dec" \/ last_op_ = "IncPtr" \/ last_op_ = "DecPtr"
        \/ last_op_ = "LoopStart")

\* the test of line 233: the op repeats last_op and is one of the four merged kinds
Accumulates(last_op_, op) ==
    /\ last_op_ = op
    /\ (last_op_ = "Inc" \/ last_op_ = "Dec" \/ last_op_ = "IncPtr" \/ last_op_ = "DecPtr")

\* mutant of GroupOp: count is not set back to 1 when a new group begins
GroupOpNoReset(op, st) ==
    IF st.last_op # <<>> THEN
        LET last_op_ == st.last_op[1] IN
        IF Accumulates(last_op_, op)
        THEN [st EXCEPT !.count = @ + 1]
        ELSE [st EXCEPT !.op_groups = Append(@, <<last_op_, st.count>>),
                        !.last_op = <<op>>]
    ELSE [st EXCEPT !.last_op = <<op>>]

\* one iteration of the first for loop of compress (grouping)
GroupOp(op, st) ==
    IF st.last_op # <<>> THEN
        LET last_op_ == st.last_op[1] IN
        IF Accumulates(last_op_, op)
        THEN [st EXCEPT !.count = @ + 1]
        ELSE [st EXCEPT !.op_groups = Append(@, <<last_op_, st.count>>),
                        !.last_op = <<op>>,
                        !.count = 1]
    ELSE [st EXCEPT !.last_op = <<op>>]

\* the first for loop of compress, for the ops at positions lo..hi (1-based) in order
\* (count is never 0: the test only makes the evaluation of st eager, hence shallow)
RECURSIVE GroupLoop(_, _, _, _)
GroupLoop(code_ops, lo, hi, st) ==
    IF lo > hi \/ st.count = 0 THEN st
    ELSE IF lo = hi THEN GroupOp(code_ops[lo], st)
    ELSE LET mid == (lo + hi) \div 2 IN
         GroupLoop(code_ops, mid + 1, hi, GroupLoop(code_ops, lo, mid, st))

\* op_groups of compress, after the push of the last group (lines 225-249)
OpGroups(code_ops) ==
    LET st == GroupLoop(code_ops, 1, Len(code_ops),
                        [last_op |-> <<>>, count |-> 1, op_groups |-> <<>>])
    IN  IF st.last_op # <<>>
        THEN Append(st.op_groups, <<st.last_op[1], st.count>>)
        ELSE st.op_groups

\* mutant of AsU8: the conversion saturates
AsU8Saturating(count) == IF count < U8Range THEN count ELSE U8Range - 1

\* count as u8
AsU8(count) == count % U8Range

\* the CompressedOp pushed for a group (the match of lines 254-291)
EmitOp(op, count) ==
    CASE op = "Inc"       -> <<"Add", AsU8(count)>>
      [] op = "Dec"       -> <<"Sub", AsU8(count)>>
      [] op = "IncPtr"    -> <<"Forward", count>>
      [] op = "DecPtr"    -> <<"Back", count>>
      [] op = "PutChar"   -> <<"PutChar">>
      [] op = "GetChar"   -> <<"GetChar">>
      [] op = "LoopStart" -> <<"LoopStart">>
      [] op = "LoopEnd"   -> <<"LoopEnd">>

\* one iteration of the second for loop of compress (emission and jump table)
EmitGroup(group, st) ==
    LET op == group[1]
        count == group[2]
        pushed == [st EXCEPT !.ops = Append(@, EmitOp(op, count))]
    IN  IF op = "LoopStart" THEN
            [pushed EXCEPT !.map_stack = Append(@, st.pc), !.pc = @ + 1]
        ELSE IF op = "LoopEnd" THEN
            IF st.map_stack = <<>>
            THEN \* map_stack.pop().expect("Unmatched loop end")
                 [pushed EXCEPT !.panicked = TRUE]
            ELSE LET begin == st.map_stack[Len(st.map_stack)] IN
                 [pushed EXCEPT !.map_stack = PopStack(@),
                                !.jump_table = SetJumps(@, begin, st.pc),
                                !.pc = @ + 1]
        ELSE [pushed EXCEPT !.pc = @ + 1]

\* the second for loop of compress, for the groups at positions lo..hi (1-based) in order
RECURSIVE EmitLoop(_, _, _, _)
EmitLoop(op_groups, lo, hi, st) ==
    IF lo > hi \/ st.panicked THEN st
    ELSE IF lo = hi THEN EmitGroup(op_groups[lo], st)
    ELSE LET mid == (lo + hi) \div 2 IN
         EmitLoop(op_groups, mid + 1, hi, EmitLoop(op_groups, lo, mid, st))

\* mutant of compress: the jump table of the parsed code is kept
CompressKeepingJumpTable(code) ==
    LET op_groups == OpGroups(code.ops)
        st == EmitLoop(op_groups, 1, Len(op_groups),
                       [ops |-> <<>>, pc |-> 0, map_stack |-> <<>>,
                        jump_table |-> Zeros(Len(op_groups)), panicked |-> FALSE])
    IN  [ops |-> st.ops, jump_table |-> code.jump_table, panicked |-> st.panicked]

\* mutant of compress: the jump table of the input is patched, not rebuilt from zeros
CompressPatchingJumpTable(code) ==
    LET op_groups == OpGroups(code.ops)
        old == [k \in 1..Len(op_groups) |->
                   IF k <= Len(code.jump_table) THEN code.jump_table[k] ELSE 0]
        st == EmitLoop(op_groups, 1, Len(op_groups),
                       [ops |-> <<>>, pc |-> 0, map_stack |-> <<>>,
                        jump_table |-> old, panicked |-> FALSE])
    IN  [ops |-> st.ops, jump_table |-> st.jump_table, panicked |-> st.panicked]

\* pub fn compress
compress(code) ==
    LET op_groups == OpGroups(code.ops)
        st == EmitLoop(op_groups, 1, Len(op_groups),
                       [ops |-> <<>>, pc |-> 0, map_stack |-> <<>>,
                        jump_table |-> Zeros(Len(op_groups)), panicked |-> FALSE])
    IN  [ops |-> st.ops, jump_table |-> st.jump_table, panicked |-> st.panicked]

----------------------------------------------------------------------------
(* Environment *)

\* Environment::new
EnvironmentNew(data, reader, writer) ==
    [data |-> data, writer |-> writer, reader |-> reader, pointer |-> 0, pc |-> 0,
     panicked |-> FALSE]

\* a panic raised while the Environment is borrowed: the run is over
Panic(self) == [self EXCEPT !.panicked = TRUE]

\* self.data[self.pointer] is in bounds (otherwise the indexing panics)
InBounds(self) == self.pointer < Len(self.data)

\* mutant of WrappingAdd: the sum saturates at 255
SaturatingAdd(a, n) == IF a + n < U8Range THEN a + n ELSE U8Range - 1

\* u8::wrapping_add
WrappingAdd(a, n) == (a + n) % U8Range

\* u8::wrapping_sub
WrappingSub(a, n) == (a + U8Range - n) % U8Range

\* Environment::add
add(self, n) ==
    IF InBounds(self)
    THEN [self EXCEPT !.data[self.pointer + 1] = WrappingAdd(@, n)]
    ELSE Panic(self)

\* Environment::sub
sub(self, n) ==
    IF InBounds(self)
    THEN [self EXCEPT !.data[self.pointer + 1] = WrappingSub(@, n)]
    ELSE Panic(self)

\* Environment::add_ptr: usize += panics on overflow in a debug build, wraps in a release build
add_ptr(self, n) ==
    IF self.pointer + n < UsizeRange THEN [self EXCEPT !.pointer = @ + n]
    ELSE IF overflow_checks THEN Panic(self)
    ELSE [self EXCEPT !.pointer = (@ + n) % UsizeRange]

\* Environment::sub_ptr: usize -= panics on overflow in a debug build, wraps in a release build
sub_ptr(self, n) ==
    IF self.pointer >= n THEN [self EXCEPT !.pointer = @ - n]
    ELSE IF overflow_checks THEN Panic(self)
    ELSE [self EXCEPT !.pointer = (@ + UsizeRange - n) % UsizeRange]

\* the bytes write!(w, "{}", b as char) writes: the UTF-8 encoding of the char U+0000..U+00FF
Utf8(b) ==
    IF b < 128 THEN <<b>> ELSE <<192 + (b \div 64), 128 + (b % 64)>>

\* Environment::put_char
put_char(self) ==
    IF InBounds(self)
    THEN [self EXCEPT !.writer = @ \o Utf8(self.data[self.pointer + 1])]
    ELSE Panic(self)

\* mutant of read_char: the end of the input is stored as 255 (the EOF of C's getchar)
ReadCharEofIs255(self) ==
    LET char == IF self.reader # <<>> THEN <<Head(self.reader)>> ELSE <<>>
        rest == IF self.reader # <<>> THEN Tail(self.reader) ELSE <<>>
        read == [self EXCEPT !.reader = rest]
    IN  IF InBounds(self)
        THEN [read EXCEPT !.data[self.pointer + 1] = IF char # <<>> THEN char[1] ELSE 255]
        ELSE Panic(read)

\* mutant of read_char: the byte is stored in the first cell (self.data[0])
ReadCharIntoFirstCell(self) ==
    LET char == IF self.reader # <<>> THEN <<Head(self.reader)>> ELSE <<>>
        rest == IF self.reader # <<>> THEN Tail(self.reader) ELSE <<>>
        read == [self EXCEPT !.reader = rest]
    IN  IF InBounds(self)
        THEN [read EXCEPT !.data[0 + 1] = IF char # <<>> THEN char[1] ELSE 0]
        ELSE Panic(read)

\* Environment::read_char: the reader is advanced before the cell is indexed
read_char(self) ==
    LET char == IF self.reader # <<>> THEN <<Head(self.reader)>> ELSE <<>>
        rest == IF self.reader # <<>> THEN Tail(self.reader) ELSE <<>>
        read == [self EXCEPT !.reader = rest]
    IN  IF InBounds(self)
        THEN [read EXCEPT !.data[self.pointer + 1] = IF char # <<>> THEN char[1] ELSE 0]
        ELSE Panic(read)

\* Environment::advance_pc (not reached when the call before it panicked)
advance_pc(self) ==
    IF self.panicked THEN self ELSE [self EXCEPT !.pc = @ + 1]

\* Environment::set_pc
set_pc(self, pc) == [self EXCEPT !.pc = pc]

\* Environment::read_data (called only when InBounds)
read_data(self) == self.data[self.pointer + 1]

----------------------------------------------------------------------------
(* Runnable *)

\* mutant of process_loop_start: the loop is skipped when the cell is not 0
ProcessLoopStartInverted(code, e) ==
    IF ~InBounds(e) THEN Panic(e)
    ELSE IF read_data(e) # 0
    THEN set_pc(e, code.jump_table[e.pc + 1])
    ELSE advance_pc(e)

\* Runnable::process_loop_start
process_loop_start(code, e) ==
    IF ~InBounds(e) THEN Panic(e)
    ELSE IF read_data(e) = 0
    THEN set_pc(e, code.jump_table[e.pc + 1])
    ELSE advance_pc(e)

\* Runnable::process_loop_end
process_loop_end(code, e) ==
    IF ~InBounds(e) THEN Panic(e)
    ELSE IF read_data(e) # 0
    THEN set_pc(e, code.jump_table[e.pc + 1])
    ELSE advance_pc(e)

\* impl Runnable for Op: run
OpRun(self, code, e) ==
    CASE self = "Inc"       -> advance_pc(add(e, 1))
      [] self = "Dec"       -> advance_pc(sub(e, 1))
      [] self = "IncPtr"    -> advance_pc(add_ptr(e, 1))
      [] self = "DecPtr"    -> advance_pc(sub_ptr(e, 1))
      [] self = "PutChar"   -> advance_pc(put_char(e))
      [] self = "GetChar"   -> advance_pc(read_char(e))
      [] self = "LoopStart" -> process_loop_start(code, e)
      [] self = "LoopEnd"   -> process_loop_end(code, e)

\* impl Runnable for CompressedOp: run
CompressedOpRun(self, code, e) ==
    CASE self[1] = "Add"       -> advance_pc(add(e, self[2]))
      [] self[1] = "Sub"       -> advance_pc(sub(e, self[2]))
      [] self[1] = "Back"      -> advance_pc(sub_ptr(e, self[2]))
      [] self[1] = "Forward"   -> advance_pc(add_ptr(e, self[2]))
      [] self[1] = "PutChar"   -> advance_pc(put_char(e))
      [] self[1] = "GetChar"   -> advance_pc(read_char(e))
      [] self[1] = "LoopStart" -> process_loop_start(code, e)
      [] self[1] = "LoopEnd"   -> process_loop_end(code, e)

\* the test of the while loop of run
Running(code, e) == Len(code.ops) > e.pc /\ ~e.panicked

\* run has returned: the while loop has ended without a panic
Returned(code, e) == Len(code.ops) <= e.pc /\ ~e.panicked

\* the run is over, by return or by panic
Finished(code, e) == ~Running(code, e)

----------------------------------------------------------------------------
(* Inputs *)

\* the characters of the enumerated sources: the default symbols and one that is no token
Alphabet == {"+", "-", ">", "<", ",", ".", "[", "]", "x"}

\* every source text of at most MaxLen characters
ShortSources == UNION {[1..k -> Alphabet] : k \in 0..MaxLen}

\* tests::HELLO_BF
HELLO_BF ==
    <<"+", "+", "+", "+", "+", "+", "+", "+", "[", ">", "+", "+", "+", "+",
      "[", ">", "+", "+", ">", "+", "+", "+", ">", "+", "+", "+", ">", "+",
      "<", "<", "<", "<", "-", "]", ">", "+", ">", "+", ">", "-", ">", ">",
      "+", "[", "<", "]", "<", "-", "]", ">", ">", ".", ">", "-", "-", "-",
      ".", "+", "+", "+", "+", "+", "+", "+", ".", ".", "+", "+", "+", ".",
      ">", ">", ".", "<", "-", ".", "<", ".", "+", "+", "+", ".", "-", "-",
      "-", "-", "-", "-", ".", "-", "-", "-", "-", "-", "-", "-", "-", ".",
      ">", ">", "+", ".", ">", "+", "+", ".">>

\* the sources of tests::test_parse_ops, test_parse_jumps, test_compress and test_input
TestParseOps == <<"+", "-", ".", ",", "[", ">", "<", "]">>
TestParseJumps == <<"[", "+", "+", "+", "]", "-", "-", "[", "+", "[", "+", "]", "+", "]">>
TestCompress ==
    <<"+", "+", "+", "+", "+", "[", ">", ">", ">", "-", "-", "-", "-", "<",
      "<", "<", "[", "[", ".", ".", "]", "]", ",", ",", "]">>
TestInput == <<",", ".", ",", ".", ",", ".">>

TestSources == {HELLO_BF, TestParseOps, TestParseJumps, TestCompress, TestInput}

\* n times the character c
Repeat(c, n) == [i \in 1..n |-> c]

\* run lengths around the capacity of the u8 count of Add and Sub
LongRuns == {U8Range - 1, U8Range, U8Range + 1}

\* a long run of one of the four merged tokens, then a write
LongSources == {Repeat(c, n) \o <<".">> : c \in {"+", "-", ">", "<"}, n \in LongRuns}

Sources == ShortSources \cup TestSources \cup LongSources

Languages == {Default}

\* the buffers handed to Environment::new: every cell 0 (main.rs and the tests), or every cell 255
InitCells == {0, 255}
Buffers == {[i \in 1..MemSize |-> b] : b \in InitCells}

\* the byte streams of the reader (tests::test_input reads a, b, c)
Inputs == {<<>>, <<200>>, <<97, 98, 99>>}

----------------------------------------------------------------------------
(* The pipeline *)

NoCode == [ops |-> <<>>, jump_table |-> <<>>, panicked |-> FALSE]

Init ==
    /\ source \in Sources
    /\ language_str = <<>>
    /\ language \in Languages
    /\ data0 \in Buffers
    /\ input0 \in Inputs
    /\ overflow_checks \in BOOLEAN
    /\ owed = 0
    /\ stage = "start"
    /\ ops = NoCode
    /\ compressed_ops = NoCode
    /\ env = EnvironmentNew(data0, input0, <<>>)
    /\ cenv = EnvironmentNew(data0, input0, <<>>)

\* let ops = parse(&code, &language)
Parse ==
    /\ stage = "start"
    /\ ops' = parse(source, language)
    /\ stage' = IF ops'.panicked THEN "aborted" ELSE "parsed"
    /\ UNCHANGED <<source, language_str, language, data0, input0, overflow_checks, owed,
                   compressed_ops, env, cenv>>

\* let compressed_ops = compress(&ops)
Compress ==
    /\ stage = "parsed"
    /\ compressed_ops' = compress(ops)
    /\ stage' = IF compressed_ops'.panicked THEN "aborted" ELSE "compressed"
    /\ UNCHANGED <<source, language_str, language, data0, input0, overflow_checks, owed,
                   ops, env, cenv>>

\* the writer still takes the bytes of a write
HasRoom(e) == Len(e.writer) + 2 <= MaxOut

\* The two runs share nothing, so they may be interleaved in any way.  They are
\* interleaved group by group: the compressed run makes one step, then the raw run
\* makes as many steps as the group of that step has ops, so that the two runs are
\* compared whenever the raw run owes no step.  A run that is over does not hold up
\* the other.

\* parse and compress have returned
Ready == stage = "compressed" \/ stage = "run"

\* the number of ops that compress has merged into the instruction at index pc
GroupSize(pc) == OpGroups(ops.ops)[pc + 1][2]

\* one iteration of the while loop of run(&ops, &mut env)
RunOp ==
    /\ Ready
    /\ owed > 0 \/ Finished(compressed_ops, cenv)
    /\ Running(ops, env)
    /\ ops.ops[env.pc + 1] = "PutChar" => HasRoom(env)
    /\ env' = OpRun(ops.ops[env.pc + 1], ops, env)
    /\ owed' = IF owed > 0 THEN owed - 1 ELSE 0
    /\ stage' = "run"
    /\ UNCHANGED <<source, language_str, language, data0, input0, overflow_checks,
                   ops, compressed_ops, cenv>>

\* one iteration of the while loop of run(&compressed_ops, &mut env)
RunCompressedOp ==
    /\ Ready
    /\ owed = 0 \/ Finished(ops, env)
    /\ Running(compressed_ops, cenv)
    /\ compressed_ops.ops[cenv.pc + 1] = <<"PutChar">> => HasRoom(cenv)
    /\ cenv' = CompressedOpRun(compressed_ops.ops[cenv.pc + 1], compressed_ops, cenv)
    /\ owed' = IF Finished(ops, env) THEN owed ELSE GroupSize(cenv.pc)
    /\ stage' = "run"
    /\ UNCHANGED <<source, language_str, language, data0, input0, overflow_checks,
                   ops, compressed_ops, env>>

Next == Parse \/ Compress \/ RunOp \/ RunCompressedOp

Spec == Init /\ [][Next]_vars

----------------------------------------------------------------------------
(* The language option.  main.rs builds the Language from the string of    *)
(* the option -l with make_from_string and parses the source with it; the  *)
(* tests also build a Language field by field.                             *)

\* the string of tests::test_language_from_string, and the source of tests::test_language
TestLanguageString == <<"a", "b", "c", "d", "e", "f", "g", "h">>

\* the Language of tests::test_language
TestLanguage ==
    [inc |-> "a", dec |-> "b", inc_ptr |-> "c", dec_ptr |-> "d",
     put_char |-> "e", get_char |-> "f", loop_start |-> "g", loop_end |-> "h"]

\* the string of the default language (main.rs: the help of the option)
DefaultString == <<"+", "-", ">", "<", ",", ".", "[", "]">>

\* the strings with which a string begins: 0 to 9 characters of "abcdefghi"
Prefixes(s) == {SubSeq(s, 1, n) : n \in 0..Len(s)}

\* the default symbols given to other roles: in reverse order, and moved by one role
ReversedDefault == [i \in 1..8 |-> DefaultString[9 - i]]
RotatedDefault == [i \in 1..8 |-> DefaultString[(i % 8) + 1]]

\* the default string with the symbol of role i given to role j as well
SharedSymbol(i, j) == [DefaultString EXCEPT ![j] = DefaultString[i]]

LanguageStrings ==
    Prefixes(TestLanguageString \o <<"i">>)
        \cup {DefaultString, ReversedDefault, RotatedDefault, Repeat("+", 8)}
        \cup {SharedSymbol(i, j) : i, j \in 1..8}

\* sources in the symbols of the test language
LetterSources == UNION {[1..k -> {"a", "g", "h"}] : k \in 0..MaxLen}

LanguageSources == ShortSources \cup LetterSources \cup {TestLanguageString}

\* no Language has been made yet
NoLanguage ==
    [inc |-> "", dec |-> "", inc_ptr |-> "", dec_ptr |-> "",
     put_char |-> "", get_char |-> "", loop_start |-> "", loop_end |-> ""]

LanguageInit ==
    /\ source \in LanguageSources
    /\ \/ /\ language_str \in {<<s>> : s \in LanguageStrings}
          /\ language = NoLanguage
          /\ stage = "args"
       \/ /\ language_str = <<>>
          /\ language = TestLanguage
          /\ stage = "start"
    /\ data0 = Zeros(MemSize)
    /\ input0 = <<>>
    /\ overflow_checks = TRUE
    /\ owed = 0
    /\ ops = NoCode
    /\ compressed_ops = NoCode
    /\ env = EnvironmentNew(data0, input0, <<>>)
    /\ cenv = EnvironmentNew(data0, input0, <<>>)

\* let language = match matches.value_of("language") { Some(language_str) => ... }
MakeLanguage ==
    /\ stage = "args"
    /\ language_str # <<>>
    /\ LET made == make_from_string(language_str[1]) IN
         IF made = <<>>
         THEN \* exit(exitcode::DATAERR)
              /\ stage' = "rejected"
              /\ language' = language
         ELSE /\ stage' = "start"
              /\ language' = made[1]
    /\ UNCHANGED <<source, language_str, data0, input0, overflow_checks, owed,
                   ops, compressed_ops, env, cenv>>

LanguageNext == MakeLanguage \/ Parse

LanguageSpec == LanguageInit /\ [][LanguageNext]_vars

----------------------------------------------------------------------------
(* Vocabulary of the properties.  Positions i, j, a, r are 0-based indices  *)
(* of an instruction sequence, as in the code.                              *)

\* the Op a CompressedOp stands for
RawKind(cop) ==
    CASE cop[1] = "Add"     -> "Inc"
      [] cop[1] = "Sub"     -> "Dec"
      [] cop[1] = "Forward" -> "IncPtr"
      [] cop[1] = "Back"    -> "DecPtr"
      [] OTHER              -> cop[1]

KindsOf(cops) == [k \in 1..Len(cops) |-> RawKind(cops[k])]

\* the four kinds that compression merges
MergedKinds == {"Inc", "Dec", "IncPtr", "DecPtr"}

\* LoopStarts minus LoopEnds among the positions a..b
Level(kinds, a, b) ==
    Cardinality({k \in a..b : kinds[k + 1] = "LoopStart"})
        - Cardinality({k \in a..b : kinds[k + 1] = "LoopEnd"})

\* the LoopStart at i and the LoopEnd at j delimit one well-nested loop
Matched(kinds, i, j) ==
    /\ i < j
    /\ kinds[i + 1] = "LoopStart"
    /\ kinds[j + 1] = "LoopEnd"
    /\ Level(kinds, i, j) = 0
    /\ \A m \in i..(j - 1) : Level(kinds, i, m) > 0

\* every loop delimiter has its partner
WellFormed(kinds) ==
    /\ Level(kinds, 0, Len(kinds) - 1) = 0
    /\ \A m \in 0..(Len(kinds) - 1) : Level(kinds, 0, m) >= 0

\* the jump table holds, for every matched pair, the index after the partner
JumpsMatch(kinds, jump_table) ==
    \A i, j \in 0..(Len(kinds) - 1) :
        Matched(kinds, i, j) =>
            /\ jump_table[i + 1] = j + 1
            /\ jump_table[j + 1] = i + 1

\* position r begins a group: it does not continue a run of a merged kind
GroupStart(kinds, r) ==
    r = 0 \/ kinds[r] # kinds[r + 1] \/ kinds[r + 1] \notin MergedKinds

\* the index, in the compressed sequence, of the group that raw position r belongs to
Renumber(kinds, r) == Cardinality({t \in 0..r : GroupStart(kinds, t)}) - 1

\* the length of the maximal run that begins at position a
RunLength(kinds, a) ==
    LET n == Len(kinds)
        stops == {t \in (a + 1)..n : t = n \/ kinds[t + 1] # kinds[a + 1]}
    IN  (CHOOSE t \in stops : \A u \in stops : t <= u) - a

\* the counted instruction of a merged kind
Counted(kind, k) ==
    CASE kind = "Inc"    -> <<"Add", k>>
      [] kind = "Dec"    -> <<"Sub", k>>
      [] kind = "IncPtr" -> <<"Forward", k>>
      [] kind = "DecPtr" -> <<"Back", k>>

\* the state right after parse has returned
Parsed == stage = "parsed"

\* the state right after compress has returned, before either run has begun
Compressed == stage = "compressed"

----------------------------------------------------------------------------
(* C1 *)

\* the raw run has made the steps of every group the compressed run has executed
\* (or has ended before it could)
CaughtUp == stage = "run" /\ (owed = 0 \/ Finished(ops, env))

\* the two runs have written the same bytes, hold the same memory and have read the
\* same part of the input; both are over or neither is, and they ended the same way;
\* unless they panicked, the pointer is the same
SameOutcome ==
    /\ env.writer = cenv.writer
    /\ env.data = cenv.data
    /\ env.reader = cenv.reader
    /\ env.panicked = cenv.panicked
    /\ Finished(ops, env) <=> Finished(compressed_ops, cenv)
    /\ Returned(ops, env) <=> Returned(compressed_ops, cenv)
    /\ ~env.panicked => env.pointer = cenv.pointer

\* C1: for every well-formed program, every initial memory and every input, the run
\* of parse(p) and the run of compress(parse(p)) from the same initial state write
\* the same bytes and leave the same memory and the same pointer, and one of them
\* terminates if and only if the other does.  (Checked group by group: whenever the
\* raw run has caught up with the compressed run, the two agree; so they agree when
\* they end, and neither can end while the other runs on.)
C1_RawAndCompressedAgree ==
    (CaughtUp /\ WellFormed(ops.ops)) => SameOutcome

\* both runs of a well-formed program are over
BothFinished ==
    /\ stage = "run"
    /\ Finished(ops, env)
    /\ Finished(compressed_ops, cenv)
    /\ WellFormed(ops.ops)

\* tests::test_run and tests::test_compress_run: both runs of HELLO_BF on a zeroed
\* buffer have returned and have written "Hello World!\n"
C1_Witness ==
    /\ source = HELLO_BF
    /\ data0[1] = 0
    /\ BothFinished
    /\ Returned(ops, env)
    /\ Returned(compressed_ops, cenv)
    /\ env.writer = <<72, 101, 108, 108, 111, 32, 87, 111, 114, 108, 100, 33, 10>>
    /\ cenv.writer = env.writer
    /\ Len(compressed_ops.ops) < Len(ops.ops)

----------------------------------------------------------------------------
(* C2: for every source that parse accepts, the jump table is as long as   *)
(* the instruction sequence; for every LoopStart at i matched with the     *)
(* LoopEnd at j, jump_table[i] = j + 1 and jump_table[j] = i + 1; and the  *)
(* entry of every instruction that is no loop delimiter is 0.              *)
C2_ParseJumpTable ==
    Parsed =>
        /\ Len(ops.jump_table) = Len(ops.ops)
        /\ JumpsMatch(ops.ops, ops.jump_table)
        /\ \A k \in 1..Len(ops.ops) :
              ops.ops[k] \notin {"LoopStart", "LoopEnd"} => ops.jump_table[k] = 0

\* tests::test_parse_jumps: the table of [+++]--[+[+]+]
C2_Witness ==
    /\ Parsed
    /\ source = TestParseJumps
    /\ ops.jump_table[0 + 1] = 5
    /\ ops.jump_table[4 + 1] = 1
    /\ ops.jump_table[7 + 1] = 14
    /\ ops.jump_table[13 + 1] = 8
    /\ ops.jump_table[9 + 1] = 12
    /\ ops.jump_table[11 + 1] = 10

----------------------------------------------------------------------------
(* C3: for every well-formed parsed program, the jump table of compress is *)
(* as long as the compressed sequence, and every pair matched in the raw   *)
(* sequence is, at its renumbered positions i and j, a LoopStart and a     *)
(* LoopEnd with jump_table[i] = j + 1 and jump_table[j] = i + 1; the same  *)
(* holds of every pair matched in the compressed sequence itself.          *)
C3_CompressJumpTable ==
    (Compressed /\ WellFormed(ops.ops)) =>
        LET cops == compressed_ops.ops
            cjt == compressed_ops.jump_table
        IN  /\ Len(cjt) = Len(cops)
            /\ \A i, j \in 0..(Len(ops.ops) - 1) :
                  Matched(ops.ops, i, j) =>
                      LET ci == Renumber(ops.ops, i)
                          cj == Renumber(ops.ops, j)
                      IN  /\ cj < Len(cops)
                          /\ cops[ci + 1] = <<"LoopStart">>
                          /\ cops[cj + 1] = <<"LoopEnd">>
                          /\ cjt[ci + 1] = cj + 1
                          /\ cjt[cj + 1] = ci + 1
            /\ JumpsMatch(KindsOf(cops), cjt)

\* tests::test_compress: the table of +++++[>>>----<<<[[..]],,] after compression
C3_Witness ==
    /\ Compressed
    /\ source = TestCompress
    /\ Len(compressed_ops.ops) = 14
    /\ compressed_ops.jump_table[1 + 1] = 14
    /\ compressed_ops.jump_table[13 + 1] = 2
    /\ compressed_ops.jump_table[5 + 1] = 11
    /\ compressed_ops.jump_table[10 + 1] = 6
    /\ compressed_ops.jump_table[6 + 1] = 10
    /\ compressed_ops.jump_table[9 + 1] = 7

----------------------------------------------------------------------------
(* C4 *)

\* no two adjacent compressed instructions are counted instructions of the same kind
NoAdjacentCounted(cops) ==
    \A k \in 1..(Len(cops) - 1) :
        cops[k][1] = cops[k + 1][1] => RawKind(cops[k]) \notin MergedKinds

\* every maximal run of a merged kind has become one counted instruction whose count
\* is CountOf(kind, run length)
RunsCounted(CountOf(_, _)) ==
    LET kinds == ops.ops
        cops == compressed_ops.ops
    IN  /\ \A a \in 0..(Len(kinds) - 1) :
              (kinds[a + 1] \in MergedKinds /\ GroupStart(kinds, a)) =>
                  /\ Renumber(kinds, a) < Len(cops)
                  /\ cops[Renumber(kinds, a) + 1]
                        = Counted(kinds[a + 1], CountOf(kinds[a + 1], RunLength(kinds, a)))
        /\ Len(cops) = Cardinality({a \in 0..(Len(kinds) - 1) : GroupStart(kinds, a)})
        /\ NoAdjacentCounted(cops)

\* C4 as claimed: compress emits exactly one counted instruction for each maximal run
\* of k >= 1 identical Inc, Dec, IncPtr or DecPtr, and its count is k, for every k
\* (256 and more included); no two adjacent output instructions are counted
\* instructions of the same kind.
C4_CountIsRunLength ==
    Compressed => RunsCounted(LAMBDA kind, k : k)

\* C4 as amended: the count of Add and Sub is k modulo 256 (the u8 conversion of the
\* run length); the count of Forward and Back is k.
C4_CountIsRunLengthAsU8 ==
    Compressed =>
        RunsCounted(LAMBDA kind, k : IF kind \in {"Inc", "Dec"} THEN k % 256 ELSE k)

\* a run of 256 Inc has become Add(0), and the run is the whole of one instruction
C4_Witness ==
    /\ Compressed
    /\ source = Repeat("+", 256) \o <<".">>
    /\ compressed_ops.ops = <<(<<"Add", 0>>), (<<"PutChar">>)>>

----------------------------------------------------------------------------
(* C5: the PutChar, GetChar, LoopStart and LoopEnd of the compressed       *)
(* sequence are those of the raw sequence: same kinds, same order, same    *)
(* number, also where identical ones are adjacent.                         *)
C5_OthersNotMerged ==
    Compressed =>
        SelectSeq(KindsOf(compressed_ops.ops), LAMBDA k : k \notin MergedKinds)
            = SelectSeq(ops.ops, LAMBDA k : k \notin MergedKinds)

\* tests::test_compress: [[..]],,] keeps its two PutChar, two GetChar and three LoopEnd
C5_Witness ==
    /\ Compressed
    /\ source = TestCompress
    /\ SubSeq(compressed_ops.ops, 6, 14)
          = <<(<<"LoopStart">>), (<<"LoopStart">>), (<<"PutChar">>), (<<"PutChar">>),
              (<<"LoopEnd">>), (<<"LoopEnd">>), (<<"GetChar">>), (<<"GetChar">>),
              (<<"LoopEnd">>)>>

----------------------------------------------------------------------------
(* C6: parse returns for a source the instruction sequence and the jump    *)
(* table it returns for the source without its non-token characters; the   *)
(* jump table has one entry per token.                                      *)
C6_SymbolFiltering ==
    Parsed =>
        LET symbols == {language.inc, language.dec, language.inc_ptr, language.dec_ptr,
                        language.put_char, language.get_char,
                        language.loop_start, language.loop_end}
            tokens == SelectSeq(source, LAMBDA c : c \in symbols)
            filtered == parse(tokens, language)
        IN  /\ ~filtered.panicked
            /\ ops.ops = filtered.ops
            /\ ops.jump_table = filtered.jump_table
            /\ Len(ops.jump_table) = Len(tokens)

\* a loop with a non-token character inside: the table counts the two tokens only
C6_Witness ==
    /\ Parsed
    /\ source = <<"[", "x", "]">>
    /\ ops.ops = <<"LoopStart", "LoopEnd">>
    /\ ops.jump_table = <<2, 1>>


----------------------------------------------------------------------------
(* Steps of the two runs.  A step of run(&ops, ..) is a RunOp step, from   *)
(* env to env'; a step of run(&compressed_ops, ..) is a RunCompressedOp    *)
(* step, from cenv to cenv'.                                                *)

\* the cell under the pointer of e, when the pointer is inside the buffer
PointsInside(e) == e.pointer < Len(e.data)
Cell(e) == e.data[e.pointer + 1]

\* the count of each instruction (1 for those that carry none)
CountsOf(cops) == [k \in 1..Len(cops) |-> IF Len(cops[k]) = 2 THEN cops[k][2] ELSE 1]
Ones(rawops) == [k \in 1..Len(rawops) |-> 1]

\* P holds of every step of either run; P(kinds, counts, code, e, e2) is given the
\* kinds of the instructions (as Op names), their counts, the Code, and the
\* Environment before and after the step
EveryStep(P(_, _, _, _, _)) ==
    /\ RunOp => P(ops.ops, Ones(ops.ops), ops, env, env')
    /\ RunCompressedOp =>
          P(KindsOf(compressed_ops.ops), CountsOf(compressed_ops.ops),
            compressed_ops, cenv, cenv')

----------------------------------------------------------------------------
(* C7 *)

\* a step on a loop delimiter moves pc as the cell says
LoopStep(kinds, counts, code, e, e2) ==
    LET pc == e.pc
        kind == kinds[pc + 1]
        target == code.jump_table[pc + 1]
    IN  (kind \in {"LoopStart", "LoopEnd"} /\ PointsInside(e)) =>
            /\ ~e2.panicked
            /\ (kind = "LoopStart" /\ Cell(e) = 0) => e2.pc = target
            /\ (kind = "LoopStart" /\ Cell(e) # 0) => e2.pc = pc + 1
            /\ (kind = "LoopEnd" /\ Cell(e) # 0) => e2.pc = target
            /\ (kind = "LoopEnd" /\ Cell(e) = 0) => e2.pc = pc + 1
            /\ (kind = "LoopStart" /\ Cell(e) = 0 /\ WellFormed(kinds)) =>
                    Matched(kinds, pc, e2.pc - 1)
            /\ (kind = "LoopEnd" /\ Cell(e) # 0 /\ WellFormed(kinds)) =>
                    Matched(kinds, e2.pc - 1, pc)

\* C7: LoopStart at pc with a zero cell sets pc to jump_table[pc], which in a
\* well-formed program is the index just after the matching LoopEnd, and otherwise
\* pc becomes pc + 1; LoopEnd at pc with a nonzero cell sets pc to jump_table[pc],
\* the index just after the matching LoopStart, and otherwise pc becomes pc + 1.  So
\* a loop body is entered only with a nonzero cell and left only with a zero cell,
\* in the raw and in the compressed run alike.
C7_LoopBranching == [][EveryStep(LoopStep)]_vars

\* both runs of [-] on a cell of 255 have returned: the loop was entered, repeated
\* while the cell was not 0, and left at 0
C7_Witness ==
    /\ source = <<"[", "-", "]">>
    /\ data0[1] = 255
    /\ Ready
    /\ env.pc = 3
    /\ cenv.pc = 3
    /\ env.data[1] = 0
    /\ cenv.data[1] = 0

----------------------------------------------------------------------------
(* C8 *)

\* a step on Inc/Add(n) or Dec/Sub(n) leaves the cell at (c + n) mod 256 or at
\* (c - n) mod 256, and advances pc by 1 without failing
ArithmeticStep(kinds, counts, code, e, e2) ==
    LET kind == kinds[e.pc + 1]
        n == counts[e.pc + 1]
    IN  (kind \in {"Inc", "Dec"} /\ PointsInside(e)) =>
            /\ n \in 0..255
            /\ ~e2.panicked
            /\ e2.pc = e.pc + 1
            /\ e2.pointer = e.pointer
            /\ kind = "Inc" => Cell(e2) = (Cell(e) + n) % 256
            /\ kind = "Dec" => Cell(e2) = (Cell(e) - n) % 256
            /\ (kind = "Inc" /\ n = 1 /\ Cell(e) = 255) => Cell(e2) = 0
            /\ (kind = "Dec" /\ n = 1 /\ Cell(e) = 0) => Cell(e2) = 255

\* C8: cell arithmetic is modulo 256 and never fails: Add(n) leaves the cell c at
\* (c + n) mod 256 and Sub(n) at (c - n) mod 256, Inc and Dec being the case n = 1
\* (Inc on 255 gives 0, Dec on 0 gives 255), and pc advances by 1.
C8_WrappingArithmetic == [][EveryStep(ArithmeticStep)]_vars

\* Inc on a cell that held 255 has left 0, in both runs
C8_Witness ==
    /\ source = <<"+">>
    /\ data0[1] = 255
    /\ Ready
    /\ env.pc = 1
    /\ env.data[1] = 0
    /\ cenv.pc = 1
    /\ cenv.data[1] = 0

----------------------------------------------------------------------------
(* C9 *)

\* a step on PutChar appends the cell, as one byte, to the output
WriteStep(kinds, counts, code, e, e2) ==
    (kinds[e.pc + 1] = "PutChar" /\ PointsInside(e)) =>
        e2.writer = Append(e.writer, Cell(e))

\* C9: each executed WriteByte appends exactly one byte to the output stream, and
\* that byte is the value of the cell under the pointer, for every value 0..255.
C9_OneBytePerWrite == [][EveryStep(WriteStep)]_vars

----------------------------------------------------------------------------
(* C10 *)

\* the number of bytes e has taken from its reader
Consumed(e) == Len(input0) - Len(e.reader)

\* what is left in the reader is the input from some position on
ReaderIsRest(e) ==
    /\ Len(e.reader) <= Len(input0)
    /\ e.reader = SubSeq(input0, Consumed(e) + 1, Len(input0))

\* a step on GetChar, the (k+1)-th of the run, stores the (k+1)-th byte of the input
\* and consumes it; past the end of the input it stores 0; pc advances by 1
ReadStep(kinds, counts, code, e, e2) ==
    LET k == Consumed(e) IN
    (kinds[e.pc + 1] = "GetChar" /\ PointsInside(e)) =>
        /\ ~e2.panicked
        /\ e2.pc = e.pc + 1
        /\ k < Len(input0) => (Cell(e2) = input0[k + 1] /\ Consumed(e2) = k + 1)
        /\ k >= Len(input0) => (Cell(e2) = 0 /\ Consumed(e2) = k)

\* C10: the k-th executed ReadByte consumes one byte and stores the k-th byte of the
\* input in the cell under the pointer; a ReadByte executed after the input is
\* exhausted stores 0 and execution continues at pc + 1.  So ,.,.,. on the input
\* a, b, c writes a, b, c.
C10_ReadsInOrder ==
    /\ [](ReaderIsRest(env) /\ ReaderIsRest(cenv))
    /\ [][EveryStep(ReadStep)]_vars
    /\ []((source = TestInput /\ input0 = <<97, 98, 99>> /\ stage = "run") =>
            /\ Returned(ops, env) => env.writer = <<97, 98, 99>>
            /\ Returned(compressed_ops, cenv) => cenv.writer = <<97, 98, 99>>)

\* tests::test_input: ,.,.,. has read a, b, c and written them, in both runs
C10_Witness ==
    /\ source = TestInput
    /\ input0 = <<97, 98, 99>>
    /\ Ready
    /\ Returned(ops, env)
    /\ Returned(compressed_ops, cenv)
    /\ env.writer = <<97, 98, 99>>
    /\ cenv.writer = <<97, 98, 99>>
    /\ env.reader = <<>>

----------------------------------------------------------------------------
(* C11 *)

\* the characters of the source that are symbols of the language, in order
TokensOf(source_, language_) ==
    LET symbols == {language_.inc, language_.dec, language_.inc_ptr, language_.dec_ptr,
                    language_.put_char, language_.get_char,
                    language_.loop_start, language_.loop_end}
    IN  SelectSeq(source_, LAMBDA c : c \in symbols)

\* the loop-start symbols minus the loop-end symbols among the tokens 0..j
Opens(tokens, language_, j) ==
    Cardinality({k \in 0..j : tokens[k + 1] = language_.loop_start})
        - Cardinality({k \in 0..j : tokens[k + 1] = language_.loop_end})

\* the tokens at which a loop end is met while no loop start is open
UnmatchedEnds(tokens, language_) ==
    {j \in 0..(Len(tokens) - 1) : Opens(tokens, language_, j) < 0}

\* parse is over, by return or by abort
ParseOver == stage = "parsed" \/ stage = "aborted"

\* C11: parse aborts (and returns no instruction sequence: the pipeline ends there)
\* exactly when, scanning the tokens left to right, a LoopEnd is met while no
\* LoopStart is open; it aborts at the first such token: that LoopEnd is the last
\* instruction pushed, and no later token has been processed.
C11_AbortsAtUnmatchedLoopEnd ==
    ParseOver =>
        LET tokens == TokensOf(source, language)
            unmatched == UnmatchedEnds(tokens, language)
        IN  /\ ops.panicked <=> unmatched # {}
            /\ ops.panicked <=> stage = "aborted"
            /\ ops.panicked =>
                  LET j == CHOOSE m \in unmatched : \A u \in unmatched : m <= u IN
                  /\ Len(ops.ops) = j + 1
                  /\ ops.ops[j + 1] = "LoopEnd"
                  /\ \A k \in (j + 1)..(Len(tokens) - 1) : ops.jump_table[k + 1] = 0

\* +][ has aborted at its second token: the [ after it was not processed
C11_Witness ==
    /\ stage = "aborted"
    /\ source = <<"+", "]", "[">>
    /\ ops.panicked
    /\ ops.ops = <<"Inc", "LoopEnd">>
    /\ ops.jump_table = <<0, 0, 0>>

----------------------------------------------------------------------------
(* C12 *)

\* the pointer of e is an index of its buffer, unless the run has trapped
PointerInBuffer(e) == ~e.panicked => (0 <= e.pointer /\ e.pointer < Len(e.data))

\* C12: in every state reachable during run the pointer is a valid index into the
\* memory buffer, 0 <= pointer < buffer size: no pointer movement leaves the pointer
\* outside the buffer without the run trapping.
C12_PointerInBuffer ==
    Ready => (PointerInBuffer(env) /\ PointerInBuffer(cenv))

----------------------------------------------------------------------------
(* C13 *)

\* the symbols of a Language in the order of the roles of the symbol table:
\* increment, decrement, pointer-forward, pointer-backward, read-byte, write-byte,
\* loop-start, loop-end
TableSymbols(language_) ==
    <<language_.inc, language_.dec, language_.inc_ptr, language_.dec_ptr,
      language_.get_char, language_.put_char, language_.loop_start, language_.loop_end>>

\* make_from_string has been called on the string of the option
LanguageMade == language_str # <<>> /\ stage # "args"

\* C13: make_from_string returns None if and only if the string does not have
\* exactly 8 characters, whether they are distinct or not; otherwise it gives the
\* characters, by position, to the roles increment, decrement, pointer-forward,
\* pointer-backward, read-byte, write-byte, loop-start, loop-end; and the default
\* table is the result for the string +-><,.[]
C13_MakeFromString ==
    LanguageMade =>
        LET s == language_str[1] IN
        /\ stage = "rejected" <=> Len(s) # 8
        /\ stage # "rejected" => TableSymbols(language) = s
        /\ (stage # "rejected" /\ s = DefaultString) => language = Default

\* tests::test_language_from_string: the Language made from "abcdefgh"
C13_Witness ==
    /\ language_str = <<TestLanguageString>>
    /\ stage = "start"
    /\ language.inc = "a"
    /\ language.dec = "b"
    /\ language.inc_ptr = "c"
    /\ language.dec_ptr = "d"
    /\ language.get_char = "e"
    /\ language.put_char = "f"
    /\ language.loop_start = "g"
       /\ language.loop_end = "h"

----------------------------------------------------------------------------
(* C14 *)

\* the 8 symbols of the table are pairwise distinct
Distinct(language_) ==
    Cardinality({TableSymbols(language_)[r] : r \in 1..8}) = 8

\* every character of the source is a symbol of the table
WrittenIn(source_, language_) ==
    \A k \in 1..Len(source_) : \E r \in 1..8 : TableSymbols(language_)[r] = source_[k]

\* the canonical symbol of the role that has the symbol c in the table
Canonical(language_, c) ==
    TableSymbols(Default)[CHOOSE r \in 1..8 : TableSymbols(language_)[r] = c]

\* the source with each symbol replaced by the canonical symbol of its role
CanonicalSource(source_, language_) ==
    [k \in 1..Len(source_) |-> Canonical(language_, source_[k])]

\* C14: for every symbol table of 8 pairwise distinct symbols and every source
\* written in those symbols, parse yields the instruction sequence and the jump
\* table that parsing the canonical source (each symbol replaced by the canonical
\* symbol of its role) with the default table yields, and aborts if and only if
\* that parse aborts.
C14_CustomSymbols ==
    (ParseOver /\ Distinct(language) /\ WrittenIn(source, language)) =>
        LET canonical == parse(CanonicalSource(source, language), Default) IN
        /\ ops.ops = canonical.ops
        /\ ops.jump_table = canonical.jump_table
        /\ ops.panicked = canonical.panicked

\* tests::test_language: abcdefgh parsed with the Language of the test
C14_Witness ==
    /\ stage = "parsed"
    /\ language = TestLanguage
    /\ source = TestLanguageString
    /\ ops.ops = <<"Inc", "Dec", "IncPtr", "DecPtr", "PutChar", "GetChar",
                   "LoopStart", "LoopEnd">>
    /\ ops.jump_table = <<0, 0, 0, 0, 0, 0, 8, 7>>

----------------------------------------------------------------------------
(* C17 *)

\* the instructions of the roles, in the order of TableSymbols
TableOps ==
    <<"Inc", "Dec", "IncPtr", "DecPtr", "GetChar", "PutChar", "LoopStart", "LoopEnd">>

\* the roles in the order of the symbol table, and in the order in which parse tests
\* them (put_char before get_char)
TableOrder == <<1, 2, 3, 4, 5, 6, 7, 8>>
ParseOrder == <<1, 2, 3, 4, 6, 5, 7, 8>>

\* the instruction of the first role, in the given order, that has the symbol c
FirstRoleOp(language_, order, c) ==
    LET hits == {n \in 1..8 : TableSymbols(language_)[order[n]] = c}
        first == CHOOSE n \in hits : \A m \in hits : n <= m
    IN  TableOps[order[first]]

\* every token that parse has processed has become the instruction of the first
\* role, in the given order, that has its symbol
FirstRoleWins(order) ==
    LET tokens == TokensOf(source, language) IN
    /\ Len(ops.ops) <= Len(tokens)
    /\ ~ops.panicked => Len(ops.ops) = Len(tokens)
    /\ \A k \in 1..Len(ops.ops) : ops.ops[k] = FirstRoleOp(language, order, tokens[k])

\* parse is over, with a table in which two roles or more have the same symbol
ParsedWithSharedSymbol == ParseOver /\ language # NoLanguage /\ ~Distinct(language)

\* C17 as claimed: when a symbol table gives the same symbol to two roles or more,
\* parse maps every occurrence of the symbol to the instruction of the role that
\* comes first in the order of the symbol table: increment, decrement,
\* pointer-forward, pointer-backward, read-byte, write-byte, loop-start, loop-end.
C17_FirstRoleInTableOrder ==
    ParsedWithSharedSymbol => FirstRoleWins(TableOrder)

\* C17 as amended: the role that wins is the first in the order in which parse
\* tests the roles: increment, decrement, pointer-forward, pointer-backward,
\* write-byte, read-byte, loop-start, loop-end.
C17_FirstRoleInParseOrder ==
    ParsedWithSharedSymbol => FirstRoleWins(ParseOrder)

\* with the table +-><,,[] (read-byte and write-byte share the comma) the source
\* +,, has become Inc PutChar PutChar
C17_Witness ==
    /\ stage = "parsed"
    /\ language_str = <<SharedSymbol(5, 6)>>
    /\ source = <<"+", ",", ",">>
    /\ ops.ops = <<"Inc", "PutChar", "PutChar">>

----------------------------------------------------------------------------
(* C15 *)

\* the program has no LoopStart and no LoopEnd
LoopFree(kinds) == \A k \in 1..Len(kinds) : kinds[k] \notin {"LoopStart", "LoopEnd"}

\* a run that is over has its pc at or past the end; past a loop-free program of
\* length n it is at n
StoppedAtEnd(kinds, code, e) ==
    Finished(code, e) =>
        /\ e.pc >= Len(code.ops)
        /\ LoopFree(kinds) => e.pc = Len(code.ops)

\* a step of a loop-free program executes the instruction at pc and goes on to the
\* next one
StraightStep(kinds, counts, code, e, e2) ==
    LoopFree(kinds) => e2.pc = e.pc + 1

\* C15: run stops only when pc >= the instruction count, and no instruction
\* execution ends it earlier; so a program of length n without LoopStart and LoopEnd
\* halts after exactly n executions, each instruction executed once in index order,
\* with pc = n.
C15_StopsOnlyAtEnd ==
    /\ [](Ready => /\ StoppedAtEnd(ops.ops, ops, env)
                   /\ StoppedAtEnd(KindsOf(compressed_ops.ops), compressed_ops, cenv))
    /\ [][EveryStep(StraightStep)]_vars

----------------------------------------------------------------------------
(* C16 *)

\* the LoopStart at i is never closed: it has no matching LoopEnd
Unmatched(kinds, i) ==
    /\ kinds[i + 1] = "LoopStart"
    /\ \A m \in i..(Len(kinds) - 1) : Level(kinds, i, m) > 0

\* the source has a loop start that is never closed, and no loop end without a loop
\* start
OnlyOpenStarts(tokens, language_) ==
    /\ UnmatchedEnds(tokens, language_) = {}
    /\ tokens # <<>>
    /\ Opens(tokens, language_, Len(tokens) - 1) > 0

\* a step on a LoopStart without matching LoopEnd, on a cell of 0, sets pc to 0
OpenLoopStep(kinds, counts, code, e, e2) ==
    (/\ kinds[e.pc + 1] = "LoopStart"
     /\ PointsInside(e)
     /\ Cell(e) = 0
     /\ Unmatched(kinds, e.pc)) =>
        /\ ~e2.panicked
        /\ e2.pc = 0

\* C16: parse accepts without any error a source that has a LoopStart with no
\* matching LoopEnd, and leaves the jump-table entry of that LoopStart at 0;
\* executing that LoopStart on a cell of 0 then sets pc to 0, which restarts the
\* program from its first instruction, instead of failing.
C16_OpenLoopStartRestarts ==
    /\ [](ParseOver =>
            /\ OnlyOpenStarts(TokensOf(source, language), language) => stage = "parsed"
            /\ ~ops.panicked =>
                  \A i \in 0..(Len(ops.ops) - 1) :
                      Unmatched(ops.ops, i) => ops.jump_table[i + 1] = 0)
    /\ [][EveryStep(OpenLoopStep)]_vars

\* +[ on a cell of 255: the Inc left 0, the LoopStart set pc to 0, the Inc was
\* executed again and left 1, and the LoopStart then let the run end
C16_Witness ==
    /\ source = <<"+", "[">>
    /\ data0[1] = 255
    /\ ops.jump_table = <<0, 0>>
    /\ Returned(ops, env)
    /\ env.pc = 2
    /\ env.data[1] = 1
    /\ Returned(compressed_ops, cenv)
    /\ cenv.data[1] = 1

----------------------------------------------------------------------------
(* C18 *)

\* jump tables other than the one parse has built for the instruction sequence: all
\* zeros, every index its own target, every entry one more, and none at all
OtherJumpTables(code) ==
    {Zeros(Len(code.ops)),
     [k \in 1..Len(code.ops) |-> k],
     [k \in 1..Len(code.ops) |-> code.jump_table[k] + 1],
     <<>>}

\* C18: the result of compress depends only on the instruction sequence of its
\* input: an input with the same instruction sequence and another jump table
\* yields the same compressed instruction sequence and the same compressed jump
\* table (the jump table of the input is never read).
C18_CompressIgnoresJumpTable ==
    Compressed =>
        \A jump_table \in OtherJumpTables(ops) :
            LET other == compress([ops EXCEPT !.jump_table = jump_table]) IN
            /\ other.ops = compressed_ops.ops
            /\ other.jump_table = compressed_ops.jump_table
            /\ other.panicked = compressed_ops.panicked

\* tests::test_compress: the Code of +++++[>>>----<<<[[..]],,] with its jump table
\* zeroed compresses to what the Code that parse returned has compressed to
C18_Witness ==
    /\ Compressed
    /\ source = TestCompress
    /\ ops.jump_table # Zeros(Len(ops.ops))
    /\ compress([ops EXCEPT !.jump_table = Zeros(Len(ops.ops))]) = compressed_ops
    /\ compressed_ops.jump_table[1 + 1] = 14

----------------------------------------------------------------------------
(* C19 *)

\* pc is an index of the instruction sequence or the index past its end; while the
\* run goes on, pc is an index of the instructions and of the jump table; and run
\* has returned only with pc at the instruction count
PcInRange(code, e) ==
    /\ 0 <= e.pc
    /\ e.pc <= Len(code.ops)
    /\ Running(code, e) =>
          (e.pc + 1 \in DOMAIN code.ops /\ e.pc + 1 \in DOMAIN code.jump_table)
    /\ Returned(code, e) => e.pc = Len(code.ops)

\* a step on an instruction that is no loop delimiter moves pc to pc + 1, or fails
\* and leaves it, whatever the jump table holds
NoJumpStep(kinds, counts, code, e, e2) ==
    kinds[e.pc + 1] \notin {"LoopStart", "LoopEnd"} =>
        \/ ~e2.panicked /\ e2.pc = e.pc + 1
        \/ e2.panicked /\ e2.pc = e.pc

\* C19: for every Code that parse or compress has produced, programs with an
\* unmatched LoopStart included, every state of a run has 0 <= pc <= instruction
\* count, so that the instructions and the jump table are never indexed out of
\* range, and run returns exactly with pc equal to the instruction count; the jump
\* table is read only at the indices of LoopStart and LoopEnd: a step on another
\* instruction is the same without any jump table.
C19_PcInRange ==
    /\ [](Ready => (PcInRange(ops, env) /\ PcInRange(compressed_ops, cenv)))
    /\ [][EveryStep(NoJumpStep)]_vars
    /\ [][(RunOp /\ ops.ops[env.pc + 1] \notin {"LoopStart", "LoopEnd"}) =>
            env' = OpRun(ops.ops[env.pc + 1], [ops EXCEPT !.jump_table = <<>>], env)]_vars
    /\ [][(RunCompressedOp
            /\ compressed_ops.ops[cenv.pc + 1][1] \notin {"LoopStart", "LoopEnd"}) =>
            cenv' = CompressedOpRun(compressed_ops.ops[cenv.pc + 1],
                                    [compressed_ops EXCEPT !.jump_table = <<>>], cenv)]_vars

\* [-] on a cell of 0: the LoopStart has set pc to 3, the instruction count, and
\* both runs have returned there
C19_Witness ==
    /\ source = <<"[", "-", "]">>
    /\ data0[1] = 0
    /\ Ready
    /\ Returned(ops, env)
    /\ env.pc = 3
    /\ Returned(compressed_ops, cenv)
    /\ cenv.pc = 3

----------------------------------------------------------------------------
(* C20 *)

\* the loop delimiters of a sequence of kinds, in order
Delimiters(kinds) == SelectSeq(kinds, LAMBDA k : k \in {"LoopStart", "LoopEnd"})

\* C20: compress never aborts on a Code that a successful parse has returned: its
\* "Unmatched loop end" is not reached, because grouping keeps the LoopStart and
\* LoopEnd instructions in order and number; and compress of the empty sequence
\* returns the empty sequence with an empty jump table.
C20_CompressNeverAborts ==
    /\ ~compressed_ops.panicked
    /\ stage = "aborted" => ops.panicked
    /\ Compressed =>
          /\ Delimiters(KindsOf(compressed_ops.ops)) = Delimiters(ops.ops)
          /\ ops.ops = <<>> =>
                (compressed_ops.ops = <<>> /\ compressed_ops.jump_table = <<>>)

\* tests::test_parse_jumps: [+++]--[+[+]+] has been compressed, its three loops kept
C20_Witness ==
    /\ Compressed
    /\ source = TestParseJumps
    /\ ~compressed_ops.panicked
    /\ Len(compressed_ops.ops) = 11
    /\ Delimiters(KindsOf(compressed_ops.ops))
          = <<"LoopStart", "LoopEnd", "LoopStart", "LoopStart", "LoopEnd", "LoopEnd">>
    /\ compressed_ops.jump_table = <<3, 0, 1, 0, 11, 0, 9, 0, 7, 0, 5>>

----------------------------------------------------------------------------
(* C21 *)

\* every cell but the one under the pointer of e is in e2 what it is in e
OtherCellsKept(e, e2) ==
    /\ Len(e2.data) = Len(e.data)
    /\ \A k \in 1..Len(e.data) : k # e.pointer + 1 => e2.data[k] = e.data[k]

\* a step changes only what the row of its instruction names
FrameStep(kinds, counts, code, e, e2) ==
    LET kind == kinds[e.pc + 1] IN
    /\ kind \in {"Inc", "Dec", "GetChar"} =>
          /\ OtherCellsKept(e, e2)
          /\ e2.pointer = e.pointer
          /\ e2.writer = e.writer
    /\ kind \in {"Inc", "Dec"} => e2.reader = e.reader
    /\ kind \in {"IncPtr", "DecPtr"} =>
          /\ e2.data = e.data
          /\ e2.reader = e.reader
          /\ e2.writer = e.writer
    /\ kind = "PutChar" =>
          /\ e2.data = e.data
          /\ e2.pointer = e.pointer
          /\ e2.reader = e.reader
    /\ kind \in {"LoopStart", "LoopEnd"} =>
          /\ e2.data = e.data
          /\ e2.pointer = e.pointer
          /\ e2.reader = e.reader
          /\ e2.writer = e.writer
    /\ e2.pc # e.pc =>
          \/ e2.pc = e.pc + 1
          \/ kind \in {"LoopStart", "LoopEnd"} /\ e2.pc = code.jump_table[e.pc + 1]

\* C21: each step changes only what the row of its instruction says: Inc, Dec, Add,
\* Sub and ReadByte change only the cell under the pointer (every other cell, the
\* pointer and the output are unchanged); IncPtr, DecPtr, Forward and Back change
\* only the pointer (memory, input and output are unchanged); WriteByte changes
\* only the output; LoopStart and LoopEnd change only pc; and pc changes in a step
\* only to pc + 1 or to jump_table[pc].
C21_StepFrames == [][EveryStep(FrameStep)]_vars

\* >,. on the input a, b, c: the pointer has moved to cell 1, the a was stored there
\* and written, and every other cell is what it was, in both runs
C21_Witness ==
    /\ source = <<">", ",", ".">>
    /\ input0 = <<97, 98, 99>>
    /\ data0[1] = 255
    /\ Returned(ops, env)
    /\ env.pointer = 1
    /\ env.data = [data0 EXCEPT ![1 + 1] = 97]
    /\ env.writer = <<97>>
    /\ env.reader = <<98, 99>>
    /\ Returned(compressed_ops, cenv)
    /\ cenv.data = env.data

====
